---- MODULE Spec2Model ----
(***************************************************************************)
(* Market session clock of the dashboard (src/app.py): the open/closed    *)
(* status per exchange, the minutes until the next open, the duration     *)
(* formatter and the two memoization layers (lru_cache, st.cache_data).   *)
(*                                                                         *)
(* Encodings.  Optional[int] is a sequence: None is <<>> and the integer   *)
(* m is <<m>>.  A Python tuple (is_open, minutes) is <<is_open, minutes>>. *)
(* A Python str is a sequence of one-character strings.  Weekdays are      *)
(* datetime.weekday() numbers, Monday = 0 .. Sunday = 6.                   *)
(***************************************************************************)
EXTENDS Integers, Sequences, FiniteSets, TLC

VARIABLES market, current_hour, current_minute, current_weekday, ret,
          lru, minutes, text, utc, host_offset, elapsed, st_cache, displayed

vars == <<market, current_hour, current_minute, current_weekday, ret,
          lru, minutes, text, utc, host_offset, elapsed, st_cache, displayed>>

statusVars == <<market, current_hour, current_minute, current_weekday, ret>>
formatVars == <<minutes, text>>
sessionVars == <<utc, host_offset, elapsed, st_cache, displayed>>

----------------------------------------------------------------------------
(* Constants of the program *)

None == <<>>
Some(m) == <<m>>

MARKET_SCHEDULES ==
  [NY     |-> [open |-> <<9, 30>>, close |-> <<16, 0>>,  days |-> 0..4],
   London |-> [open |-> <<3, 0>>,  close |-> <<11, 30>>, days |-> 0..4],
   Asian  |-> [open |-> <<19, 0>>, close |-> <<1, 0>>,   days |-> {6, 0, 1, 2, 3, 4}]]

WEEKEND_TO_MONDAY == 3
SATURDAY_TO_MONDAY == 2
SUNDAY_TO_MONDAY == 1
NEXT_TRADING_DAY == 1
MARKET_CACHE_TTL == 300
LruMaxSize == 128
MinutesPerDay == 1440

Markets == <<"NY", "London", "Asian">>
MarketNames == {"NY", "London", "Asian"}

(* A market name that is not a key of MARKET_SCHEDULES. *)
UnknownMarket == "Sydney"

----------------------------------------------------------------------------
(* calculate_minutes_to_next_open and calculate_next_market_open *)

days_ahead_sat_is_one(weekday) ==
  IF weekday = 4 THEN WEEKEND_TO_MONDAY
  ELSE IF weekday = 5 THEN SUNDAY_TO_MONDAY
  ELSE IF weekday = 6 THEN SUNDAY_TO_MONDAY
  ELSE NEXT_TRADING_DAY

(* The if/elif chain choosing days_ahead (the Asian Sunday early return is
   in calculate_minutes_to_next_open). *)
days_ahead(weekday) ==
  IF weekday = 4 THEN WEEKEND_TO_MONDAY
  ELSE IF weekday = 5 THEN SATURDAY_TO_MONDAY
  ELSE IF weekday = 6 THEN SUNDAY_TO_MONDAY
  ELSE NEXT_TRADING_DAY

minutes_to_next_open_no_today(market_name, weekday, current_minutes, open_minutes) ==
  IF weekday = 6 /\ market_name = "Asian" /\ current_minutes < open_minutes
    THEN open_minutes - current_minutes
    ELSE (days_ahead(weekday) * 1440) + open_minutes - current_minutes

calculate_minutes_to_next_open(market_name, weekday, current_minutes, open_minutes) ==
  LET schedule == MARKET_SCHEDULES[market_name] IN
  IF weekday \in schedule.days /\ current_minutes < open_minutes
    THEN open_minutes - current_minutes
  ELSE IF weekday = 6 /\ market_name = "Asian" /\ current_minutes < open_minutes
    THEN open_minutes - current_minutes
  ELSE (days_ahead(weekday) * 1440) + open_minutes - current_minutes

asian_in_session_and(weekday, current_minutes, open_minutes, close_minutes) ==
  \/ weekday = 6 /\ current_minutes >= open_minutes
  \/ /\ weekday # 6
     /\ weekday \in 0..4
     /\ current_minutes <= close_minutes /\ current_minutes >= open_minutes

(* The "Asian" branch: TRUE when one of its return True, None is taken. *)
asian_in_session(weekday, current_minutes, open_minutes, close_minutes) ==
  \/ weekday = 6 /\ current_minutes >= open_minutes
  \/ /\ ~(weekday = 6 /\ current_minutes >= open_minutes)
     /\ weekday \in 0..4
     /\ (current_minutes <= close_minutes \/ current_minutes >= open_minutes)

standard_in_session_strict(schedule, weekday, current_minutes, open_minutes, close_minutes) ==
  /\ weekday \in schedule.days
  /\ open_minutes < current_minutes /\ current_minutes < close_minutes

(* The else branch (NY, London): TRUE when its return True, None is taken. *)
standard_in_session(schedule, weekday, current_minutes, open_minutes, close_minutes) ==
  /\ weekday \in schedule.days
  /\ open_minutes <= current_minutes /\ current_minutes <= close_minutes

next_market_open_zero_when_open(market_name, hour, minute, weekday) ==
  IF market_name \notin DOMAIN MARKET_SCHEDULES THEN <<FALSE, None>>
  ELSE
    LET schedule == MARKET_SCHEDULES[market_name]
        current_minutes == hour * 60 + minute
        open_minutes == schedule.open[1] * 60 + schedule.open[2]
        close_minutes == schedule.close[1] * 60 + schedule.close[2]
        in_session ==
          IF market_name = "Asian"
            THEN asian_in_session(weekday, current_minutes, open_minutes, close_minutes)
            ELSE standard_in_session(schedule, weekday, current_minutes,
                                     open_minutes, close_minutes)
    IN IF in_session THEN <<TRUE, Some(0)>>
       ELSE <<FALSE, Some(calculate_minutes_to_next_open(
                            market_name, weekday, current_minutes, open_minutes))>>

(* The body of calculate_next_market_open (the function under @lru_cache). *)
calculate_next_market_open(market_name, hour, minute, weekday) ==
  IF market_name \notin DOMAIN MARKET_SCHEDULES THEN <<FALSE, None>>
  ELSE
    LET schedule == MARKET_SCHEDULES[market_name]
        current_minutes == hour * 60 + minute
        open_minutes == schedule.open[1] * 60 + schedule.open[2]
        close_minutes == schedule.close[1] * 60 + schedule.close[2]
        in_session ==
          IF market_name = "Asian"
            THEN asian_in_session(weekday, current_minutes, open_minutes, close_minutes)
            ELSE standard_in_session(schedule, weekday, current_minutes,
                                     open_minutes, close_minutes)
    IN IF in_session THEN <<TRUE, None>>
       ELSE <<FALSE, Some(calculate_minutes_to_next_open(
                            market_name, weekday, current_minutes, open_minutes))>>

----------------------------------------------------------------------------
(* functools.lru_cache(maxsize=128) around calculate_next_market_open: a
   list of entries, least recently used first. *)

lru_index(cache, key) ==
  IF \E i \in 1..Len(cache) : cache[i].key = key
    THEN CHOOSE i \in 1..Len(cache) : cache[i].key = key
    ELSE 0

lru_without(cache, i) ==
  [j \in 1..(Len(cache) - 1) |-> IF j < i THEN cache[j] ELSE cache[j + 1]]

(* A call through the cache: the value returned and the cache afterwards. *)
lru_call(cache, key) ==
  LET i == lru_index(cache, key) IN
  IF i # 0
    THEN [value |-> cache[i].value,
          cache |-> Append(lru_without(cache, i), cache[i])]
    ELSE LET value == calculate_next_market_open(key[1], key[2], key[3], key[4])
             grown == Append(cache, [key |-> key, value |-> value])
         IN [value |-> value,
             cache |-> IF Len(grown) > LruMaxSize THEN Tail(grown) ELSE grown]

----------------------------------------------------------------------------
(* format_time_duration: str values are sequences of characters *)

Digit(n) == <<"0", "1", "2", "3", "4", "5", "6", "7", "8", "9">>[n + 1]

RECURSIVE Decimal(_)
(* format(n, "d") of a non-negative int: decimal digits, no padding. *)
Decimal(n) == IF n < 10 THEN <<Digit(n)>> ELSE Append(Decimal(n \div 10), Digit(n % 10))

(* format(n, "02d") of a non-negative int: zero-padded to width 2. *)
Pad2(n) == IF n < 10 THEN <<"0">> \o Decimal(n) ELSE Decimal(n)

STR_NOW == <<"N", "o", "w">>
STR_ERROR == <<"E", "r", "r", "o", "r">>

format_time_duration_hours_not_reduced(mins_opt) ==
  IF mins_opt = None \/ mins_opt[1] <= 0 THEN STR_NOW
  ELSE LET m == mins_opt[1]
           days == m \div 1440
           hours == m \div 60
           mins == m % 60
       IN IF days > 0
            THEN Decimal(days) \o <<"d", " ">> \o Pad2(hours) \o <<":">> \o Pad2(mins)
            ELSE Pad2(hours) \o <<":">> \o Pad2(mins)

format_time_duration(mins_opt) ==
  IF mins_opt = None \/ mins_opt[1] <= 0 THEN STR_NOW
  ELSE LET m == mins_opt[1]
           days == m \div 1440
           hours == (m % 1440) \div 60
           mins == m % 60
       IN IF days > 0
            THEN Decimal(days) \o <<"d", " ">> \o Pad2(hours) \o <<":">> \o Pad2(mins)
            ELSE Pad2(hours) \o <<":">> \o Pad2(mins)

----------------------------------------------------------------------------
(* get_session_times.  A dict is a function from its keys; fault names the
   statement of the try block that raises ("none": nothing raises). *)

FaultPoints == {"none", "now", "NY", "London", "Asian"}

ActiveKey(m) == IF m = "NY" THEN "NY_active"
                ELSE IF m = "London" THEN "London_active" ELSE "Asian_active"

ERROR_RESULT ==
  [NY |-> STR_ERROR, London |-> STR_ERROR, Asian |-> STR_ERROR,
   NY_active |-> FALSE, London_active |-> FALSE, Asian_active |-> FALSE]

(* datetime.now() on the host: naive local wall time.  instant is seconds
   since Monday 00:00:00 UTC, offset the host's UTC offset in minutes. *)
SecondsPerWeek == 7 * 86400

host_now(instant, offset) ==
  LET s == (instant + offset * 60) % SecondsPerWeek IN
  [weekday |-> s \div 86400,
   hour    |-> (s % 86400) \div 3600,
   minute  |-> (s % 3600) \div 60]

RECURSIVE session_loop(_, _, _, _, _)
(* The for loop over ["NY", "London", "Asian"] from position i, with the
   results dict and the lru cache so far. *)
session_loop(i, now, fault, results, cache) ==
  IF i > Len(Markets) THEN [raised |-> FALSE, results |-> results, cache |-> cache]
  ELSE IF fault = Markets[i] THEN [raised |-> TRUE, results |-> results, cache |-> cache]
  ELSE
    LET m == Markets[i]
        call == lru_call(cache, <<m, now.hour, now.minute, now.weekday>>)
        is_open == call.value[1]
        minutes_until == call.value[2]
        label == IF is_open THEN STR_NOW ELSE format_time_duration(minutes_until)
    IN session_loop(i + 1, now, fault,
                    (m :> label) @@ (ActiveKey(m) :> is_open) @@ results,
                    call.cache)

session_times_partial_on_error(now, fault, cache) ==
  LET run == IF fault = "now"
               THEN [raised |-> TRUE, results |-> <<>>, cache |-> cache]
               ELSE session_loop(1, now, fault, <<>>, cache)
  IN [value |-> run.results, cache |-> run.cache]

(* The body of get_session_times (the function under @st.cache_data): the
   dict returned and the lru cache afterwards. *)
session_times_body(now, fault, cache) ==
  LET run == IF fault = "now"
               THEN [raised |-> TRUE, results |-> <<>>, cache |-> cache]
               ELSE session_loop(1, now, fault, <<>>, cache)
  IN [value |-> IF run.raised THEN ERROR_RESULT ELSE run.results,
      cache |-> run.cache]

ttl_never_expires(entries, timer) == Len(entries) > 0

(* st.cache_data(ttl=MARKET_CACHE_TTL): the single entry of the argument-less
   function is served while it is younger than the ttl. *)
ttl_entry_valid(entries, timer) ==
  Len(entries) > 0 /\ timer - entries[1].stored_at < MARKET_CACHE_TTL

----------------------------------------------------------------------------
(* Bounds of the checked instances *)

MaxMinutes == 4400
NegMinutes == 3
TickSeconds == 30
MaxElapsed == 420

Instant(weekday, hour, minute) == weekday * 86400 + hour * 3600 + minute * 60

(* Host UTC offsets in minutes: US Eastern standard time, UTC, Tokyo. *)
HostOffsets == {-300, 0, 540}

(* Start instants (UTC), two minutes before a session boundary of the table
   as seen by one of the hosts. *)
StartInstants ==
  {Instant(0, 9, 28), Instant(0, 14, 28), Instant(4, 15, 58), Instant(6, 18, 58)}

----------------------------------------------------------------------------
(* Specification of one call of calculate_next_market_open *)

IdleFormat == minutes = None /\ text = <<>>
IdleSession ==
  /\ utc = 0 /\ host_offset = 0 /\ elapsed = 0
  /\ st_cache = <<>> /\ displayed = <<>>
IdleStatus ==
  /\ market = "NY" /\ current_hour = 0 /\ current_minute = 0
  /\ current_weekday = 0 /\ ret = <<>>

InitStatus ==
  /\ market \in MarketNames \cup {UnknownMarket}
  /\ current_hour \in 0..23
  /\ current_minute \in 0..59
  /\ current_weekday \in 0..6
  /\ ret = <<>>
  /\ lru = <<>>
  /\ IdleFormat /\ IdleSession

(* calculate_next_market_open(market, hour, minute, weekday), through the
   lru cache. *)
CallStatus ==
  LET call == lru_call(lru, <<market, current_hour, current_minute, current_weekday>>) IN
  /\ ret' = call.value
  /\ lru' = call.cache
  /\ UNCHANGED <<market, current_hour, current_minute, current_weekday>>
  /\ UNCHANGED <<formatVars, sessionVars>>

NextStatus == CallStatus

SpecStatus == InitStatus /\ [][NextStatus]_vars

----------------------------------------------------------------------------
(* Specification of one call of format_time_duration *)

InitFormat ==
  /\ minutes \in {None} \cup {Some(m) : m \in (0 - NegMinutes)..MaxMinutes}
  /\ text = <<>>
  /\ lru = <<>>
  /\ IdleStatus /\ IdleSession

CallFormat ==
  /\ text' = format_time_duration(minutes)
  /\ UNCHANGED <<minutes, lru, statusVars, sessionVars>>

NextFormat == CallFormat

SpecFormat == InitFormat /\ [][NextFormat]_vars

----------------------------------------------------------------------------
(* Specification of the page: the clock advances and every rerun of the
   script calls the cached get_session_times.  elapsed is the monotonic timer
   of the ttl cache; the fault and at fields record which statement raised
   and when the value was returned. *)

InitSession ==
  /\ utc \in StartInstants
  /\ host_offset \in HostOffsets
  /\ elapsed = 0
  /\ st_cache = <<>>
  /\ displayed = <<>>
  /\ lru = <<>>
  /\ IdleStatus /\ IdleFormat

Tick ==
  /\ elapsed < MaxElapsed
  /\ elapsed' = elapsed + TickSeconds
  /\ utc' = (utc + TickSeconds) % SecondsPerWeek
  /\ UNCHANGED <<host_offset, st_cache, displayed, lru, statusVars, formatVars>>

RenderHit ==
  /\ ttl_entry_valid(st_cache, elapsed)
  /\ displayed' = <<[value |-> st_cache[1].value, fault |-> st_cache[1].fault,
                     at |-> elapsed]>>
  /\ UNCHANGED <<utc, host_offset, elapsed, st_cache, lru, statusVars, formatVars>>

RenderMiss(fault) ==
  /\ ~ttl_entry_valid(st_cache, elapsed)
  /\ LET r == session_times_body(host_now(utc, host_offset), fault, lru) IN
       /\ st_cache' = <<[value |-> r.value, fault |-> fault, stored_at |-> elapsed]>>
       /\ lru' = r.cache
       /\ displayed' = <<[value |-> r.value, fault |-> fault, at |-> elapsed]>>
  /\ UNCHANGED <<utc, host_offset, elapsed, statusVars, formatVars>>

NextSession ==
  \/ Tick
  \/ RenderHit
  \/ \E fault \in FaultPoints : RenderMiss(fault)

SpecSession == InitSession /\ [][NextSession]_vars

----------------------------------------------------------------------------
(* Properties of calculate_next_market_open, checked under SpecStatus *)

Returned == ret # <<>>
CurrentMinutes == current_hour * 60 + current_minute
WeekMinute == current_weekday * MinutesPerDay + CurrentMinutes
InTable == market \in MarketNames
OpenMinutes == MARKET_SCHEDULES[market].open[1] * 60 + MARKET_SCHEDULES[market].open[2]
TradingDays == MARKET_SCHEDULES[market].days

(* The status k minutes after the current weekday/hour/minute, on the weekly
   clock. *)
StatusAfter(k) ==
  LET w == (WeekMinute + k) % (7 * MinutesPerDay) IN
  calculate_next_market_open(market, (w % MinutesPerDay) \div 60, w % 60,
                             w \div MinutesPerDay)

(* C1: for NY (09:30-16:00) and London (03:00-11:30), on every trading
   weekday (Monday-Friday) and every minute-of-day t with open <= t <= close,
   both ends included, the result is (True, None). *)
Thm_C1_OpenWithinSession ==
  /\ (Returned /\ market = "NY" /\ current_weekday \in 0..4
        /\ 570 <= CurrentMinutes /\ CurrentMinutes <= 960) => ret = <<TRUE, None>>
  /\ (Returned /\ market = "London" /\ current_weekday \in 0..4
        /\ 180 <= CurrentMinutes /\ CurrentMinutes <= 690) => ret = <<TRUE, None>>

Wit_C1_AtClose ==
  /\ Returned /\ market = "NY" /\ current_weekday = 4
  /\ CurrentMinutes = 960 /\ ret = <<TRUE, None>>

(* C2 as stated: for the Asian schedule (open 19:00, close 01:00, trading days
   Sunday-Friday) is_open is true on every trading weekday whenever the
   minute-of-day is >= open or <= close, Sunday 00:30 included. *)
Cex_C2_OpenOnEveryTradingDay ==
  (Returned /\ market = "Asian" /\ current_weekday \in {6, 0, 1, 2, 3, 4}
     /\ (CurrentMinutes >= 1140 \/ CurrentMinutes <= 60)) => ret[1] = TRUE

(* C2 amended: for the Asian schedule is_open is true on Monday-Friday
   whenever the minute-of-day is >= 19:00 or <= 01:00, and on Sunday exactly
   when it is >= 19:00; Sunday 00:30 is reported closed. *)
Thm_C2_AsianSession ==
  /\ (Returned /\ market = "Asian" /\ current_weekday \in 0..4
        /\ (CurrentMinutes >= 1140 \/ CurrentMinutes <= 60)) => ret = <<TRUE, None>>
  /\ (Returned /\ market = "Asian" /\ current_weekday = 6)
        => (ret[1] = TRUE <=> CurrentMinutes >= 1140)

Wit_C2_MondayAfterMidnight ==
  /\ Returned /\ market = "Asian" /\ current_weekday = 0
  /\ CurrentMinutes = 30 /\ ret = <<TRUE, None>>

(* C3: whenever an exchange of the table is reported closed, the returned
   minutes m is a non-negative whole number and the minimal offset to the next
   open: m minutes later the exchange is reported open and at every offset
   k with 0 <= k < m it is reported closed. *)
Cex_C3_MinimalOffset ==
  (Returned /\ InTable /\ ret[1] = FALSE) =>
     /\ ret[2] # None
     /\ ret[2][1] \in Nat
     /\ StatusAfter(ret[2][1])[1] = TRUE
     /\ \A k \in 0..(ret[2][1] - 1) : StatusAfter(k)[1] = FALSE

(* C4: on a weekday outside the exchange's trading-day set the result is
   closed with strictly positive minutes, and now + minutes falls on a weekday
   of the trading-day set. *)
Thm_C4_NonTradingDay ==
  (Returned /\ InTable /\ current_weekday \notin TradingDays) =>
     /\ ret[1] = FALSE
     /\ ret[2] # None
     /\ ret[2][1] \in Nat /\ ret[2][1] > 0
     /\ ((WeekMinute + ret[2][1]) \div MinutesPerDay) % 7 \in TradingDays

Wit_C4_Saturday ==
  /\ Returned /\ market = "NY" /\ current_weekday = 5 /\ CurrentMinutes = 720
  /\ ret = <<FALSE, Some(2 * 1440 + 570 - 720)>>

(* C5: on a trading weekday, one minute before the open time the result is
   (False, 1); at any minute-of-day t before open at which the exchange is
   closed, minutes = open - t (today's open). *)
Thm_C5_BeforeOpen ==
  (Returned /\ InTable /\ current_weekday \in TradingDays
     /\ CurrentMinutes < OpenMinutes) =>
       /\ CurrentMinutes = OpenMinutes - 1 => ret = <<FALSE, Some(1)>>
       /\ ret[1] = FALSE => ret[2] = Some(OpenMinutes - CurrentMinutes)

Wit_C5_OneMinuteBefore ==
  /\ Returned /\ market = "London" /\ current_weekday = 2
  /\ CurrentMinutes = 179 /\ ret = <<FALSE, Some(1)>>

(* C6 as stated: for any market name and any weekday/hour/minute, minutes is
   present (not None) if and only if is_open is false. *)
Cex_C6_MinutesIffClosed ==
  Returned => (ret[2] # None <=> ret[1] = FALSE)

(* C6 amended: for every market name of the schedule table, minutes is present
   if and only if is_open is false; for a name that is not in the table the
   result is (False, None). *)
Thm_C6_MinutesIffClosedInTable ==
  /\ (Returned /\ InTable) => /\ ret[1] \in BOOLEAN
                              /\ (ret[2] # None <=> ret[1] = FALSE)
  /\ (Returned /\ ~InTable) => ret = <<FALSE, None>>

Wit_C6_OpenWithoutMinutes ==
  /\ Returned /\ market = "Asian" /\ current_weekday = 6
  /\ CurrentMinutes = 1140 /\ ret = <<TRUE, None>>

----------------------------------------------------------------------------
(* Properties of format_time_duration, checked under SpecFormat *)

IsDigit(c) == \E n \in 0..9 : Digit(n) = c
DigitValue(c) == CHOOSE n \in 0..9 : Digit(n) = c

RECURSIVE ParseDecimal(_)
ParseDecimal(s) ==
  IF Len(s) = 0 THEN 0
  ELSE ParseDecimal(SubSeq(s, 1, Len(s) - 1)) * 10 + DigitValue(s[Len(s)])

AllDigits(s) == Len(s) > 0 /\ \A i \in 1..Len(s) : IsDigit(s[i])

(* s reads "HH:MM" or "Dd HH:MM" and its fields are the decomposition of m. *)
ReadsAsDuration(s, m) ==
  LET n == Len(s)
      hh == SubSeq(s, n - 4, n - 3)
      mm == SubSeq(s, n - 1, n)
      dd == SubSeq(s, 1, n - 7)
      d == IF n = 5 THEN 0 ELSE ParseDecimal(dd)
      h == ParseDecimal(hh)
      mi == ParseDecimal(mm)
  IN /\ n = 5 \/ n >= 8
     /\ AllDigits(hh) /\ AllDigits(mm) /\ s[n - 2] = ":"
     /\ n >= 8 => /\ AllDigits(dd) /\ dd[1] # "0"
                  /\ s[n - 6] = "d" /\ s[n - 5] = " "
     /\ d = m \div 1440 /\ h = (m % 1440) \div 60 /\ mi = m % 60
     /\ d * 1440 + h * 60 + mi = m
     /\ 0 <= h /\ h < 24 /\ 0 <= mi /\ mi < 60
     /\ d > 0 <=> n >= 8

(* C8: format_time_duration(m) is "Now" for every m <= 0; for every m > 0 it
   is never "Now" and is the zero-padded decomposition d = m div 1440,
   h = (m mod 1440) div 60, mm = m mod 60, written "Dd HH:MM" when d > 0 and
   "HH:MM" when d = 0; 0 -> "Now", 90 -> "01:30", 1500 -> "1d 01:00". *)
Thm_C8_Format ==
  (text # <<>> /\ minutes # None) =>
     /\ minutes[1] <= 0 => text = STR_NOW
     /\ minutes[1] > 0 => text # STR_NOW /\ ReadsAsDuration(text, minutes[1])
     /\ minutes[1] = 90 => text = <<"0", "1", ":", "3", "0">>
     /\ minutes[1] = 1500 => text = <<"1", "d", " ", "0", "1", ":", "0", "0">>

Wit_C8_OneDayOneHour ==
  minutes = Some(1500) /\ text = <<"1", "d", " ", "0", "1", ":", "0", "0">>

----------------------------------------------------------------------------
(* Properties of get_session_times and its caches, checked under SpecSession *)

ResultKeys == {"NY", "London", "Asian", "NY_active", "London_active", "Asian_active"}

(* The call of get_session_times has just returned displayed[1]. *)
JustReturned == displayed # <<>> /\ displayed[1].at = elapsed

(* What get_session_times computes, uncached, at the instant the timer read
   age seconds ago, when the statement named by fault raises. *)
Recomputed(age, fault) ==
  session_times_body(
    host_now((utc + SecondsPerWeek - age) % SecondsPerWeek, host_offset),
    fault, <<>>).value

(* The (is_open, minutes) of each exchange a host with the given UTC offset
   computes at the current instant. *)
Statuses(offset) ==
  LET now == host_now(utc, offset) IN
  [m \in MarketNames |-> calculate_next_market_open(m, now.hour, now.minute, now.weekday)]

(* C7: a failure while computing never propagates: get_session_times always
   returns a dict with a label and a flag for every exchange, and when a
   statement raised every label is "Error" and every flag is false, while a
   computation that did not fail never carries the label "Error". *)
Thm_C7_ErrorFallback ==
  displayed # <<>> =>
    LET v == displayed[1].value IN
    /\ DOMAIN v = ResultKeys
    /\ displayed[1].fault # "none" =>
         \A m \in MarketNames :
           /\ v[m] = <<"E", "r", "r", "o", "r">>
           /\ v[m] # <<"N", "o", "w">>
           /\ v[ActiveKey(m)] = FALSE
    /\ displayed[1].fault = "none" =>
         \A m \in MarketNames : v[m] # <<"E", "r", "r", "o", "r">>

Wit_C7_RaisedMidLoop ==
  /\ displayed # <<>> /\ displayed[1].fault = "London"
  /\ Len(lru) = 1
  /\ displayed[1].value["NY"] = STR_ERROR

(* C9 as stated: the value returned by the cached get_session_times equals
   what an uncached recomputation from the current minute returns. *)
Cex_C9_CacheTransparent ==
  (JustReturned /\ displayed[1].fault = "none") =>
     displayed[1].value = Recomputed(0, "none")

(* C9 amended: every value held by the lru cache of
   calculate_next_market_open equals an uncached recomputation for its
   arguments; the cached get_session_times returns the value that was computed
   when its entry was stored, less than 300 s before the call, so it equals a
   recomputation from the minute of that instant, not of the current one. *)
Thm_C9_StaleWithinTtl ==
  /\ \A i \in 1..Len(lru) :
       lru[i].value = calculate_next_market_open(lru[i].key[1], lru[i].key[2],
                                                 lru[i].key[3], lru[i].key[4])
  /\ JustReturned =>
       /\ st_cache # <<>>
       /\ displayed[1].value = st_cache[1].value
       /\ LET age == elapsed - st_cache[1].stored_at IN
            /\ 0 <= age /\ age < 300
            /\ displayed[1].value = Recomputed(age, displayed[1].fault)

Wit_C9_StaleValueServed ==
  /\ JustReturned /\ displayed[1].fault = "none"
  /\ elapsed - st_cache[1].stored_at >= 240
  /\ displayed[1].value # Recomputed(0, "none")

(* C10: at the same absolute instant, hosts with different local UTC offsets
   compute the same is_open flag and the same minutes for each exchange. *)
Cex_C10_HostIndependent ==
  (JustReturned /\ displayed[1].fault = "none" /\ st_cache[1].stored_at = elapsed) =>
     \A o \in HostOffsets : Statuses(o) = Statuses(host_offset)

====
